---- MODULE Spec2Model ----
(***************************************************************************)
(* Chores Tracker (src/app.py): a Flask application over four Postgres     *)
(* tables.  One action per HTTP request; an action is the before_request   *)
(* gate followed by the whole view function.  The process serves a single  *)
(* family (one FAMILY_CODE per process), so the family_id column of the    *)
(* kids, chores and ledger tables is left out of the rows.                 *)
(*                                                                         *)
(* Strings are tuples of one-character strings so that str.strip() and     *)
(* int() are computed, not assumed.                                        *)
(***************************************************************************)
EXTENDS Integers, Sequences, FiniteSets, TLC

VARIABLES FAMILY_CODE, PARENT_PIN, DATABASE_OK, now,
          session, families, kids, chores, ledger, req, procs

cfg  == <<FAMILY_CODE, PARENT_PIN, DATABASE_OK>>
data == <<families, kids, chores, ledger>>
vars == <<FAMILY_CODE, PARENT_PIN, DATABASE_OK, now, session, families, kids, chores, ledger, req,
          procs>>

(* ------------------------------ bounds --------------------------------- *)

\* ledger rows the model lets kid_log insert
MaxLedger == 2

\* the last reading of the clock the model lets time.time() reach
MaxNow == 1

\* ledger rows and last reading of the clock of the stores that the streak is
\* computed over
MaxStreakRows == 2
MaxStreakNow == 5

(* ------------------------------ strings -------------------------------- *)

WS == {" "}

RECURSIVE LStrip(_)
LStrip(s) == IF s # <<>> /\ Head(s) \in WS THEN LStrip(Tail(s)) ELSE s

RECURSIVE RStrip(_)
RStrip(s) ==
    IF s # <<>> /\ s[Len(s)] \in WS THEN RStrip(SubSeq(s, 1, Len(s) - 1)) ELSE s

\* str.strip()
Strip(s) == RStrip(LStrip(s))

\* (request.form.get(name) or "").strip(): an absent field and an empty one
\* both read as the empty string
FormField(s) == Strip(s)

DigitVal(c) ==
    CASE c = "0" -> 0 [] c = "1" -> 1 [] c = "2" -> 2 [] c = "3" -> 3
      [] c = "4" -> 4 [] c = "5" -> 5 [] c = "6" -> 6 [] c = "7" -> 7
      [] c = "8" -> 8 [] c = "9" -> 9

DigitChars == {"0", "1", "2", "3", "4", "5", "6", "7", "8", "9"}

AllDigits(s) == s # <<>> /\ \A i \in 1..Len(s) : s[i] \in DigitChars

\* largest value of a Postgres INTEGER column
INT4_MAX == 2147483647

\* A Python int is unbounded.  It is kept as [over, val]: val is the value when
\* its magnitude is at most INT4_MAX; beyond that over is TRUE and val keeps
\* only the sign (1 or -1), which is all the program and the columns look at.
PyInt(v) == [over |-> FALSE, val |-> v]

RECURSIVE DigitsValue(_)
DigitsValue(s) ==
    IF s = <<>> THEN PyInt(0)
    ELSE LET p == DigitsValue(SubSeq(s, 1, Len(s) - 1))
             d == DigitVal(s[Len(s)])
         IN  IF p.over \/ p.val > (INT4_MAX - d) \div 10
             THEN [over |-> TRUE, val |-> 1]
             ELSE PyInt(10 * p.val + d)

Negate(x) == [over |-> x.over, val |-> 0 - x.val]

\* int(raw): [ok |-> FALSE] stands for ValueError.  Python's int() takes an
\* optional sign followed by decimal digits, of any magnitude.
ParseInt(raw) ==
    IF raw # <<>> /\ Head(raw) \in {"-", "+"}
    THEN IF AllDigits(Tail(raw))
         THEN [ok |-> TRUE,
               val |-> IF Head(raw) = "-" THEN Negate(DigitsValue(Tail(raw)))
                       ELSE DigitsValue(Tail(raw))]
         ELSE [ok |-> FALSE, val |-> PyInt(0)]
    ELSE IF AllDigits(raw)
         THEN [ok |-> TRUE, val |-> DigitsValue(raw)]
         ELSE [ok |-> FALSE, val |-> PyInt(0)]

\* a negative amount kept as entered
ClampNegative_Keep(x) == x

\* the handlers' "if n < 0: n = 0"
ClampNegative(x) == IF x.val < 0 THEN PyInt(0) ELSE x

(* ------------------------------ session -------------------------------- *)

\* The Flask session is a dictionary; a missing key reads as None (falsy).
NoSession == <<>>
FamilySession == [family_ok |-> TRUE]

SessionGet(s, k) == IF k \in DOMAIN s THEN s[k] ELSE FALSE

\* the session replaced by the one key instead of updated
SessionSet_Replace(s, k, v) == [x \in {k} |-> v]

SessionSet(s, k, v) == [x \in (DOMAIN s) \cup {k} |-> IF x = k THEN v ELSE s[x]]

(* --------------------------- database helpers -------------------------- *)

\* sha16(): the first 16 hex digits of SHA-256, taken as injective
sha16(s) == <<"sha16", s>>

\* get_or_create_family_id(): families.code_hash is UNIQUE; returns the table
get_or_create_family_id(fams, code) ==
    IF sha16(code) \in fams THEN fams ELSE fams \cup {sha16(code)}

S_make_bed  == <<"m", "a", "k", "e", "_", "b", "e", "d">>
S_dishes    == <<"d", "i", "s", "h", "e", "s">>
S_trash     == <<"t", "r", "a", "s", "h">>
S_homework  == <<"h", "o", "m", "e", "w", "o", "r", "k">>
T_make_bed  == <<"M", "a", "k", "e", " ", "b", "e", "d">>
T_dishes    == <<"U", "n", "l", "o", "a", "d", " ", "d", "i", "s", "h", "w", "a", "s", "h", "e", "r">>
T_trash     == <<"T", "a", "k", "e", " ", "o", "u", "t", " ", "t", "r", "a", "s", "h">>
T_homework  == <<"H", "o", "m", "e", "w", "o", "r", "k", " ", "(", "c", "h", "e", "c", "k", "e", "d", ")">>

ChoreRow(key, title, cents, req_appr) ==
    [chore_key |-> key, title |-> title, reward_cents |-> cents, requires_approval |-> req_appr]

defaults ==
    { ChoreRow(S_make_bed, T_make_bed, 50, FALSE),
      ChoreRow(S_dishes, T_dishes, 100, TRUE),
      ChoreRow(S_trash, T_trash, 75, FALSE),
      ChoreRow(S_homework, T_homework, 100, TRUE) }

\* the defaults inserted without the count: every missing one comes back
seed_default_chores_Refill(ch) ==
    ch \cup {d \in defaults : ~ \E c \in ch : c.chore_key = d.chore_key}

\* seed_default_chores(): inserts the defaults when the family has no chore
seed_default_chores(ch) == IF Cardinality(ch) > 0 THEN ch ELSE defaults

(* ----------------------------- computations ---------------------------- *)

RECURSIVE SumRewards(_, _, _)
\* SELECT COALESCE(SUM(reward_cents),0) ... WHERE kid_name=k AND status=st
SumRewards(led, k, st) ==
    IF led = <<>> THEN 0
    ELSE (IF Head(led).kid_name = k /\ Head(led).status = st THEN Head(led).reward_cents ELSE 0)
         + SumRewards(Tail(led), k, st)

\* owed_by_kid(family_id).get(k, 0): a kid without approved rows has no key
owed_by_kid(led, k) == SumRewards(led, k, "approved")

\* paid_total_by_kid(family_id).get(k, 0)
paid_total_by_kid(led, k) == SumRewards(led, k, "paid")

\* The clock counts half days: datetime.fromtimestamp(ts).date(), as the
\* number of the day
TicksPerDay == 2
DayOf(ts) == ts \div TicksPerDay

\* today_local(): datetime.now().date()
today_local == DayOf(now)

\* ledger_rows(family_id, kid_name), as the set of ids: without a name, or
\* with an empty one, the rows of every kid
ledger_rows(led, kid_name) ==
    IF kid_name # <<>> THEN {i \in 1..Len(led) : led[i].kid_name = kid_name}
    ELSE 1..Len(led)

RECURSIVE WalkBack(_, _)
\* the loop "while d in days: streak += 1; d = d - timedelta(days=1)"
WalkBack(days, d) == IF d \in days THEN 1 + WalkBack(days, d - 1) ELSE 0

\* a streak that counts the days of denied entries too
streak_for_kid_AnyStatus(led, kid_name, today) ==
    WalkBack({DayOf(led[i].ts) : i \in ledger_rows(led, kid_name)}, today)

\* streak_for_kid()
streak_for_kid(led, kid_name, today) ==
    LET rows == ledger_rows(led, kid_name)
        days == {DayOf(led[i].ts) :
                    i \in {j \in rows : led[j].status \in {"pending", "approved", "paid"}}}
    IN  WalkBack(days, today)

(* ----------------------------- core actions ---------------------------- *)

\* the insert without "ON CONFLICT ... DO NOTHING" and without the constraint
add_kid_db_NoConflict(ks, name) ==
    LET n == Strip(name) IN
    IF n = <<>> THEN ks ELSE ks \cup {[name |-> n, goal_cents |-> 0]}

\* add_kid_db(): INSERT ... ON CONFLICT (family_id,name) DO NOTHING
add_kid_db(ks, name) ==
    LET n == Strip(name) IN
    IF n = <<>> THEN ks
    ELSE IF \E r \in ks : r.name = n THEN ks
    ELSE ks \cup {[name |-> n, goal_cents |-> 0]}

\* set_goal_db(): err stands for the driver's exception when the value does
\* not fit the INTEGER column; the transaction is then rolled back
set_goal_db(ks, kid_name, goal_cents) ==
    IF goal_cents.over THEN [err |-> TRUE, kids |-> ks]
    ELSE [err |-> FALSE,
          kids |-> {IF r.name = kid_name THEN [r EXCEPT !.goal_cents = goal_cents.val] ELSE r
                    : r \in ks}]

\* a reward of 0 turned away like a negative one
add_or_update_chore_db_RejectZero(ch, key0, title0, cents, requires_approval) ==
    LET key   == Strip(key0)
        title == Strip(title0)
    IN  IF key = <<>> \/ title = <<>> THEN [err |-> FALSE, chores |-> ch]
        ELSE IF cents.val <= 0 THEN [err |-> FALSE, chores |-> ch]
        ELSE IF cents.over THEN [err |-> TRUE, chores |-> ch]
        ELSE [err |-> FALSE,
              chores |-> {r \in ch : r.chore_key # key}
                         \cup {ChoreRow(key, title, cents.val, requires_approval)}]

\* the insert without "ON CONFLICT ... DO UPDATE" and without the constraint
add_or_update_chore_db_Insert(ch, key0, title0, cents, requires_approval) ==
    LET key   == Strip(key0)
        title == Strip(title0)
    IN  IF key = <<>> \/ title = <<>> THEN [err |-> FALSE, chores |-> ch]
        ELSE IF cents.val < 0 THEN [err |-> FALSE, chores |-> ch]
        ELSE IF cents.over THEN [err |-> TRUE, chores |-> ch]
        ELSE [err |-> FALSE,
              chores |-> ch \cup {ChoreRow(key, title, cents.val, requires_approval)}]

\* add_or_update_chore_db(): INSERT ... ON CONFLICT (family_id, chore_key) DO UPDATE
add_or_update_chore_db(ch, key0, title0, cents, requires_approval) ==
    LET key   == Strip(key0)
        title == Strip(title0)
    IN  IF key = <<>> \/ title = <<>> THEN [err |-> FALSE, chores |-> ch]
        ELSE IF cents.val < 0 THEN [err |-> FALSE, chores |-> ch]
        ELSE IF cents.over THEN [err |-> TRUE, chores |-> ch]
        ELSE [err |-> FALSE,
              chores |-> {r \in ch : r.chore_key # key}
                         \cup {ChoreRow(key, title, cents.val, requires_approval)}]

\* delete_chore_db()
delete_chore_db(ch, key) == {r \in ch : r.chore_key # key}

\* the ledger rows of a chore removed with it
ledger_after_delete_Cascade(led, key) ==
    SelectSeq(led, LAMBDA row : row.chore_key # key)

\* The ledger after DELETE FROM chores: ledger.chore_key is a plain TEXT column
\* with no reference to chores, so the delete reaches no ledger row.
ledger_after_delete(led, key) == led

\* every submission waits for approval
submit_chore_db_AlwaysPending(ch, led, kid_name, chore_key, ts) ==
    IF ~ \E c \in ch : c.chore_key = chore_key THEN led
    ELSE LET chore == CHOOSE c \in ch : c.chore_key = chore_key
         IN  Append(led, [kid_name |-> kid_name, chore_key |-> chore_key,
                          chore_title |-> chore.title,
                          reward_cents |-> chore.reward_cents,
                          ts |-> ts, status |-> "pending"])

\* submit_chore_db(): the ledger's SERIAL id of a row is its position; ts is
\* the value time.time() returned
submit_chore_db(ch, led, kid_name, chore_key, ts) ==
    IF ~ \E c \in ch : c.chore_key = chore_key THEN led
    ELSE LET chore  == CHOOSE c \in ch : c.chore_key = chore_key
             status == IF chore.requires_approval THEN "pending" ELSE "approved"
         IN  Append(led, [kid_name |-> kid_name, chore_key |-> chore_key,
                          chore_title |-> chore.title,
                          reward_cents |-> chore.reward_cents,
                          ts |-> ts, status |-> status])

\* the update without "AND status='pending'"
approve_deny_db_AnyStatus(led, ledger_id, approve) ==
    [i \in 1..Len(led) |->
        IF ~ledger_id.over /\ i = ledger_id.val
        THEN [led[i] EXCEPT !.status = IF approve THEN "approved" ELSE "denied"]
        ELSE led[i]]

\* the update without "AND id=%s"
approve_deny_db_AnyRow(led, ledger_id, approve) ==
    [i \in 1..Len(led) |->
        IF led[i].status = "pending"
        THEN [led[i] EXCEPT !.status = IF approve THEN "approved" ELSE "denied"]
        ELSE led[i]]

\* approve_deny_db(): UPDATE ... WHERE id=ledger_id AND status='pending'
approve_deny_db(led, ledger_id, approve) ==
    LET new_status == IF approve THEN "approved" ELSE "denied" IN
    [i \in 1..Len(led) |->
        IF ~ledger_id.over /\ i = ledger_id.val /\ led[i].status = "pending"
        THEN [led[i] EXCEPT !.status = new_status] ELSE led[i]]

\* only the oldest approved row of the kid is paid
mark_paid_db_FirstOnly(led, kid_name) ==
    [i \in 1..Len(led) |->
        IF /\ led[i].kid_name = kid_name
           /\ led[i].status = "approved"
           /\ \A j \in 1..(i - 1) : ~(led[j].kid_name = kid_name /\ led[j].status = "approved")
        THEN [led[i] EXCEPT !.status = "paid"] ELSE led[i]]

\* the update without "AND kid_name=%s"
mark_paid_db_AnyKid(led, kid_name) ==
    [i \in 1..Len(led) |->
        IF led[i].status = "approved" THEN [led[i] EXCEPT !.status = "paid"] ELSE led[i]]

\* only the newest approved row of the kid is paid
mark_paid_db_LastOnly(led, kid_name) ==
    [i \in 1..Len(led) |->
        IF /\ led[i].kid_name = kid_name
           /\ led[i].status = "approved"
           /\ \A j \in (i + 1)..Len(led) : ~(led[j].kid_name = kid_name /\ led[j].status = "approved")
        THEN [led[i] EXCEPT !.status = "paid"] ELSE led[i]]

\* mark_paid_db(): UPDATE ... WHERE kid_name=kid_name AND status='approved'
mark_paid_db(led, kid_name) ==
    [i \in 1..Len(led) |->
        IF led[i].kid_name = kid_name /\ led[i].status = "approved"
        THEN [led[i] EXCEPT !.status = "paid"] ELSE led[i]]

\* what a Python call hands back: None, or a value
None == [none |-> TRUE]
Returned(v) == [none |-> FALSE, val |-> v]

\* the value of the call mark_paid_db(family_id, kid_name): the function has no
\* return statement
mark_paid_db_result(led, kid_name) == None

(* ------------------------ requests in parallel ------------------------ *)

\* app.run() serves each request in a thread of its own, and every helper
\* opens a connection of its own: "with db() as conn" is one transaction,
\* committed when the block is left and rolled back when it raises.  Postgres
\* runs it READ COMMITTED: a statement reads what is committed when it starts;
\* an INSERT that meets a row with its unique key, or an UPDATE that meets a
\* row another transaction has written and not committed, waits for that
\* transaction to end.
\*
\* procs[p] is the request thread p serves: the view, the statement it is at
\* (pc), the rows its open transaction has written (tx), the next default to
\* insert (i) and the ids its UPDATE found (cand).  Where requests are served
\* one at a time there is no such thread.
NoProcs == <<>>

Thread(view) == [view |-> view, pc |-> "family_select", tx |-> {}, i |-> 1, cand |-> {}]

\* the defaults in the order seed_default_chores inserts them
defaults_list ==
    << ChoreRow(S_make_bed, T_make_bed, 50, FALSE),
       ChoreRow(S_dishes, T_dishes, 100, TRUE),
       ChoreRow(S_trash, T_trash, 75, FALSE),
       ChoreRow(S_homework, T_homework, 100, TRUE) >>

\* rows other threads have written and not committed
OthersTx(p) == UNION {procs[q].tx : q \in (DOMAIN procs) \ {p}}

\* what a view does after ensure_family_ready()
AfterReady(view) == IF view \in {"approve", "deny", "pay"} THEN "update_scan" ELSE "done"

\* get_or_create_family_id(): SELECT id FROM families WHERE code_hash=%s
family_select(p) ==
    /\ procs[p].pc = "family_select"
    /\ procs' = [procs EXCEPT ![p].pc =
                    IF sha16(FAMILY_CODE) \in families THEN "seed_count" ELSE "family_insert"]
    /\ UNCHANGED <<cfg, now, session, data, req>>

\* get_or_create_family_id(): INSERT INTO families(code_hash); code_hash is
\* UNIQUE, and a violation is an exception nothing catches
family_insert(p) ==
    /\ procs[p].pc = "family_insert"
    /\ <<"family", sha16(FAMILY_CODE)>> \notin OthersTx(p)
    /\ procs' = IF sha16(FAMILY_CODE) \in families
                THEN [procs EXCEPT ![p].pc = "failed", ![p].tx = {}]
                ELSE [procs EXCEPT ![p].pc = "family_commit",
                                   ![p].tx = {<<"family", sha16(FAMILY_CODE)>>}]
    /\ UNCHANGED <<cfg, now, session, data, req>>

\* get_or_create_family_id(): the end of its "with db() as conn"
family_commit(p) ==
    /\ procs[p].pc = "family_commit"
    /\ families' = families \cup {t[2] : t \in procs[p].tx}
    /\ procs' = [procs EXCEPT ![p].pc = "seed_count", ![p].tx = {}]
    /\ UNCHANGED <<cfg, now, session, kids, chores, ledger, req>>

\* seed_default_chores(): SELECT COUNT(*) FROM chores, and the return on a
\* count above 0
seed_count(p) ==
    /\ procs[p].pc = "seed_count"
    /\ procs' = [procs EXCEPT ![p].pc =
                    IF Cardinality(chores) > 0 THEN AfterReady(procs[p].view)
                    ELSE "seed_insert"]
    /\ UNCHANGED <<cfg, now, session, data, req>>

\* seed_default_chores(): one INSERT of its loop; (family_id, chore_key) is
\* UNIQUE, and a violation is an exception nothing catches
seed_insert(p) ==
    /\ procs[p].pc = "seed_insert"
    /\ LET d == defaults_list[procs[p].i] IN
       /\ ~ \E t \in OthersTx(p) : t[1] = "chore" /\ t[2].chore_key = d.chore_key
       /\ procs' = IF \E c \in chores : c.chore_key = d.chore_key
                   THEN [procs EXCEPT ![p].pc = "failed", ![p].tx = {}]
                   ELSE [procs EXCEPT ![p].tx = @ \cup {<<"chore", d>>},
                                      ![p].i = @ + 1,
                                      ![p].pc = IF procs[p].i = Len(defaults_list)
                                                THEN "seed_commit" ELSE "seed_insert"]
    /\ UNCHANGED <<cfg, now, session, data, req>>

\* seed_default_chores(): the end of its "with db() as conn"
seed_commit(p) ==
    /\ procs[p].pc = "seed_commit"
    /\ chores' = chores \cup {t[2] : t \in procs[p].tx}
    /\ procs' = [procs EXCEPT ![p].pc = AfterReady(procs[p].view), ![p].tx = {}]
    /\ UNCHANGED <<cfg, now, session, families, kids, ledger, req>>

\* The three requests on one ledger entry: its id in /parent/approve, its
\* kid's name in /parent/pay.
RaceId == 1

\* the WHERE clause of the view's UPDATE, on one ledger row
Matches(led, id, view) ==
    IF view = "pay"
    THEN led[id].kid_name = led[RaceId].kid_name /\ led[id].status = "approved"
    ELSE id = RaceId /\ led[id].status = "pending"

\* the status the view's UPDATE sets
NewStatus(view) ==
    CASE view = "approve" -> "approved" [] view = "deny" -> "denied" [] view = "pay" -> "paid"

\* a row written again after the wait, whatever it has become
StillMatches_NoRecheck(led, id, view) == TRUE

\* After the wait for a row's lock, Postgres tests the WHERE clause again on
\* the row as committed, and skips the row when it no longer matches.
StillMatches(led, id, view) == Matches(led, id, view)

\* approve_deny_db(), mark_paid_db(): the UPDATE starts and finds its rows
update_scan(p) ==
    /\ procs[p].pc = "update_scan"
    /\ LET found == {id \in 1..Len(ledger) : Matches(ledger, id, procs[p].view)} IN
       procs' = [procs EXCEPT ![p].cand = found,
                              ![p].pc = IF found = {} THEN "done" ELSE "update_write"]
    /\ UNCHANGED <<cfg, now, session, data, req>>

\* approve_deny_db(), mark_paid_db(): the UPDATE locks and writes its rows
update_write(p) ==
    /\ procs[p].pc = "update_write"
    /\ ~ \E t \in OthersTx(p) : t[1] = "ledger" /\ t[2] \in procs[p].cand
    /\ procs' = [procs EXCEPT
                    ![p].tx = {<<"ledger", id, NewStatus(procs[p].view)>> :
                                  id \in {c \in procs[p].cand :
                                             StillMatches(ledger, c, procs[p].view)}},
                    ![p].pc = "update_commit"]
    /\ UNCHANGED <<cfg, now, session, data, req>>

\* approve_deny_db(), mark_paid_db(): the end of "with db() as conn"
update_commit(p) ==
    /\ procs[p].pc = "update_commit"
    /\ ledger' = [id \in 1..Len(ledger) |->
                     IF \E t \in procs[p].tx : t[2] = id
                     THEN [ledger[id] EXCEPT !.status = NewStatus(procs[p].view)]
                     ELSE ledger[id]]
    /\ procs' = [procs EXCEPT ![p].pc = "done", ![p].tx = {}, ![p].cand = {}]
    /\ UNCHANGED <<cfg, now, session, families, kids, chores, req>>

(* ------------------------------- inputs -------------------------------- *)

\* values of FAMILY_CODE and PARENT_PIN in the environment ("" is the default)
CodeConfigs == { <<>>, <<"f">>, <<" ", "f">> }
PinConfigs  == { <<>>, <<"p">> }

\* form fields of the two login forms
CodeInputs == { <<>>, <<"f">>, <<"f", " ">>, <<" ", "f">>, <<"x">> }
PinInputs  == { <<"p">>, <<" ", "p">>, <<"x">> }

\* form fields of the kid and parent forms
AddKidInputs   == { <<>>, <<" ", "a">> }
KidNameInputs  == { <<>>, <<"a">>, <<"b", " ">> }
ChoreKeyInputs == { <<>>, <<" ">> \o S_make_bed, <<"z">> }
SaveKeyInputs  == { <<>>, <<" ">> \o S_make_bed }
TitleInputs    == { <<" ">>, <<"T">> }
GoalInputs     == { <<"x">>, <<"-", "5">>, <<"2", "5">>,
                    <<"2", "1", "4", "7", "4", "8", "3", "6", "4", "8">> }
CentsInputs    == { <<"x">>, <<"-", "5">>,
                    <<"2", "1", "4", "7", "4", "8", "3", "6", "4", "8">> }
FlagInputs     == { <<>>, <<"0">>, <<"1">> }
LedgerIdInputs == { <<"x">>, <<"1">>, <<"2">>, <<"3">>, <<"9">> }

\* the chore form: every reward and flag with a key and a title, and one form
\* for each way of leaving the key or the title blank
SaveForms ==
    { f \in SaveKeyInputs \X TitleInputs \X CentsInputs \X FlagInputs :
         (Strip(f[1]) = <<>> \/ Strip(f[2]) = <<>>) => (f[3] = <<"x">> /\ f[4] = <<>>) }

(* -------------------------------- auth --------------------------------- *)

\* the hook without its session check
require_family_login_NoSessionCheck(endpoint) ==
    IF endpoint \in {"family_login", "static", "db_help"} THEN "none"
    ELSE IF ~DATABASE_OK THEN "redirect:db_help"
    ELSE "none"

\* require_family_login(): the before_request hook; "none" lets the view run.
\* request.endpoint is the name of the view function.
require_family_login(endpoint) ==
    IF endpoint \in {"family_login", "static", "db_help"} THEN "none"
    ELSE IF ~DATABASE_OK THEN "redirect:db_help"
    ELSE IF ~SessionGet(session, "family_ok") THEN "redirect:family_login"
    ELSE "none"

\* require_parent(): returns a redirect, or None
require_parent(s) ==
    IF ~SessionGet(s, "parent_ok") THEN "redirect:parent_login" ELSE "none"

NoRequest == [endpoint |-> "none", ran |-> FALSE, resp |-> "none", streak |-> 0]

\* Requests are served one at a time: req is the request being answered, with
\* the response it gets and whether its view function ran; streak is the
\* streak a kid's summary page shows (0 on every other response).  A view is taken
\* up when req = NoRequest, and finish ends the request.
Respond(endpoint, ran, resp) ==
    req' = [endpoint |-> endpoint, ran |-> ran, resp |-> resp, streak |-> 0]

\* the response has been sent
finish ==
    /\ req # NoRequest
    /\ req' = NoRequest
    /\ UNCHANGED <<cfg, now, procs, session, data>>

\* a request the before_request hook answers: the view does not run
Gated(endpoint) ==
    /\ Respond(endpoint, FALSE, require_family_login(endpoint))
    /\ UNCHANGED <<cfg, now, procs, session, data>>

Passes(endpoint) == require_family_login(endpoint) = "none"

\* ensure_family_ready(): init_db() creates the tables only
ensure_family_ready ==
    [families |-> get_or_create_family_id(families, FAMILY_CODE),
     chores   |-> seed_default_chores(chores)]

(* ------------------------------- routes -------------------------------- *)

\* A parent view calls require_parent() as a statement: the value it returns
\* is dropped and the view goes on.  The views below say so by binding it to
\* a name they do not use.

\* a view that loads the family and renders or redirects without writing
Loads(endpoint, resp) ==
    /\ families' = ensure_family_ready.families
    /\ chores' = ensure_family_ready.chores
    /\ UNCHANGED <<cfg, now, procs, session, kids, ledger>>
    /\ Respond(endpoint, TRUE, resp)

\* GET /db-help
db_help ==
    /\ req = NoRequest
    /\ Respond("db_help", TRUE, "page")
    /\ UNCHANGED <<cfg, now, procs, session, data>>

\* GET /static/<path>
static ==
    /\ req = NoRequest
    /\ Respond("static", TRUE, "file")
    /\ UNCHANGED <<cfg, now, procs, session, data>>

\* GET /login
family_login ==
    /\ req = NoRequest
    /\ Respond("family_login", TRUE, "page")
    /\ UNCHANGED <<cfg, now, procs, session, data>>

\* POST /login
family_login_post(code) ==
    /\ req = NoRequest
    /\ IF ~Passes("family_login_post") THEN Gated("family_login_post")
       ELSE /\ LET entered == FormField(code) IN
               IF entered = <<>> \/ entered # FAMILY_CODE
               THEN /\ session' = NoSession
                    /\ Respond("family_login_post", TRUE, "redirect:family_login")
               ELSE /\ session' = [family_ok |-> TRUE]
                    /\ Respond("family_login_post", TRUE, "redirect:home")
            /\ UNCHANGED <<cfg, now, procs, data>>

\* a logout that drops the family grant only
logout_FamilyOnly ==
    /\ req = NoRequest
    /\ IF require_family_login("logout") # "none"
       THEN /\ req' = [endpoint |-> "logout", ran |-> FALSE,
                       resp |-> require_family_login("logout"), streak |-> 0]
            /\ UNCHANGED <<cfg, now, procs, session, data>>
       ELSE /\ session' = [k \in (DOMAIN session) \ {"family_ok"} |-> session[k]]
            /\ req' = [endpoint |-> "logout", ran |-> TRUE,
                       resp |-> "redirect:family_login", streak |-> 0]
            /\ UNCHANGED <<cfg, now, procs, data>>

\* GET /logout
logout ==
    /\ req = NoRequest
    /\ IF ~Passes("logout") THEN Gated("logout")
       ELSE /\ session' = NoSession
            /\ Respond("logout", TRUE, "redirect:family_login")
            /\ UNCHANGED <<cfg, now, procs, data>>

\* GET /parent/login
parent_login ==
    /\ req = NoRequest
    /\ IF ~Passes("parent_login") THEN Gated("parent_login")
       ELSE /\ Respond("parent_login", TRUE, "page")
            /\ UNCHANGED <<cfg, now, procs, session, data>>

\* the view reached without the before_request hook
parent_login_post_NoGate(pin0) ==
    /\ req = NoRequest
    /\ LET pin == FormField(pin0) IN
       IF pin = <<>> \/ pin # PARENT_PIN
       THEN /\ session' = SessionSet(session, "parent_ok", FALSE)
            /\ Respond("parent_login_post", TRUE, "redirect:parent_login")
       ELSE /\ session' = SessionSet(session, "parent_ok", TRUE)
            /\ Respond("parent_login_post", TRUE, "redirect:parent_dashboard")
    /\ UNCHANGED <<cfg, now, procs, data>>

\* POST /parent/login
parent_login_post(pin0) ==
    /\ req = NoRequest
    /\ IF ~Passes("parent_login_post") THEN Gated("parent_login_post")
       ELSE /\ LET pin == FormField(pin0) IN
               IF pin = <<>> \/ pin # PARENT_PIN
               THEN /\ session' = SessionSet(session, "parent_ok", FALSE)
                    /\ Respond("parent_login_post", TRUE, "redirect:parent_login")
               ELSE /\ session' = SessionSet(session, "parent_ok", TRUE)
                    /\ Respond("parent_login_post", TRUE, "redirect:parent_dashboard")
            /\ UNCHANGED <<cfg, now, procs, data>>

\* GET /
home ==
    /\ req = NoRequest
    /\ IF ~Passes("home") THEN Gated("home") ELSE Loads("home", "page")

\* GET /kid
kid_menu ==
    /\ req = NoRequest
    /\ IF ~Passes("kid_menu") THEN Gated("kid_menu") ELSE Loads("kid_menu", "page")

\* POST /kid/log
kid_log(kid_name0, chore_key0) ==
    /\ req = NoRequest
    /\ IF ~Passes("kid_log") THEN Gated("kid_log")
       ELSE LET kid_name  == FormField(kid_name0)
                chore_key == FormField(chore_key0)
                loaded    == ensure_family_ready
                new       == IF kid_name # <<>> /\ chore_key # <<>>
                             THEN submit_chore_db(loaded.chores, ledger, kid_name, chore_key, now)
                             ELSE ledger
            IN  /\ Len(new) <= MaxLedger
                /\ families' = loaded.families
                /\ chores' = loaded.chores
                /\ ledger' = new
                /\ Respond("kid_log", TRUE, "redirect:kid_menu")
                /\ UNCHANGED <<cfg, now, procs, session, kids>>

\* GET /kid/summary
kid_summary(kid_name0) ==
    /\ req = NoRequest
    /\ IF ~Passes("kid_summary") THEN Gated("kid_summary")
       ELSE LET kid_name == FormField(kid_name0)
                loaded   == ensure_family_ready
            IN  /\ families' = loaded.families
                /\ chores' = loaded.chores
                /\ UNCHANGED <<cfg, now, procs, session, kids, ledger>>
                /\ req' = IF kid_name = <<>> \/ ~ \E k \in kids : k.name = kid_name
                          THEN [endpoint |-> "kid_summary", ran |-> TRUE,
                                resp |-> "redirect:kid_menu", streak |-> 0]
                          ELSE [endpoint |-> "kid_summary", ran |-> TRUE, resp |-> "page",
                                streak |-> streak_for_kid(ledger, kid_name, today_local)]

\* GET /parent
parent_dashboard ==
    /\ req = NoRequest
    /\ IF ~Passes("parent_dashboard") THEN Gated("parent_dashboard")
       ELSE LET dropped == require_parent(session) IN Loads("parent_dashboard", "page")

\* GET /parent/kid/<kid_name>
parent_kid_details(kid_name0) ==
    /\ req = NoRequest
    /\ IF ~Passes("parent_kid_details") THEN Gated("parent_kid_details")
       ELSE LET dropped == require_parent(session) IN Loads("parent_kid_details", "page")

\* GET /parent/chores
parent_edit_chores ==
    /\ req = NoRequest
    /\ IF ~Passes("parent_edit_chores") THEN Gated("parent_edit_chores")
       ELSE LET dropped == require_parent(session) IN Loads("parent_edit_chores", "page")

\* POST /parent/add_kid
parent_add_kid(kid_name0) ==
    /\ req = NoRequest
    /\ IF ~Passes("parent_add_kid") THEN Gated("parent_add_kid")
       ELSE LET dropped == require_parent(session)
                loaded  == ensure_family_ready
                name    == FormField(kid_name0)
            IN  /\ families' = loaded.families
                /\ chores' = loaded.chores
                /\ kids' = add_kid_db(kids, name)
                /\ Respond("parent_add_kid", TRUE, "redirect:parent_dashboard")
                /\ UNCHANGED <<cfg, now, procs, session, ledger>>

\* POST /parent/set_goal
parent_set_goal(kid_name0, raw0) ==
    /\ req = NoRequest
    /\ IF ~Passes("parent_set_goal") THEN Gated("parent_set_goal")
       ELSE LET dropped    == require_parent(session)
                loaded     == ensure_family_ready
                kid_name   == FormField(kid_name0)
                parsed     == ParseInt(FormField(raw0))
                goal_cents == ClampNegative(IF parsed.ok THEN parsed.val ELSE PyInt(0))
                res        == set_goal_db(kids, kid_name, goal_cents)
            IN  /\ families' = loaded.families
                /\ chores' = loaded.chores
                /\ kids' = res.kids
                /\ Respond("parent_set_goal", TRUE,
                           IF res.err THEN "error" ELSE "redirect:parent_dashboard")
                /\ UNCHANGED <<cfg, now, procs, session, ledger>>

\* POST /parent/pay
parent_pay_kid(kid_name0) ==
    /\ req = NoRequest
    /\ IF ~Passes("parent_pay_kid") THEN Gated("parent_pay_kid")
       ELSE LET dropped  == require_parent(session)
                loaded   == ensure_family_ready
                kid_name == FormField(kid_name0)
            IN  /\ families' = loaded.families
                /\ chores' = loaded.chores
                /\ ledger' = mark_paid_db(ledger, kid_name)
                /\ Respond("parent_pay_kid", TRUE, "redirect:parent_dashboard")
                /\ UNCHANGED <<cfg, now, procs, session, kids>>

\* POST /parent/approve
parent_approve(ledger_id_raw0, approve0) ==
    /\ req = NoRequest
    /\ IF ~Passes("parent_approve") THEN Gated("parent_approve")
       ELSE LET dropped == require_parent(session)
                loaded  == ensure_family_ready
                parsed  == ParseInt(FormField(ledger_id_raw0))
                approve == (IF approve0 = <<>> THEN <<"0">> ELSE approve0) = <<"1">>
            IN  /\ families' = loaded.families
                /\ chores' = loaded.chores
                /\ ledger' = IF parsed.ok THEN approve_deny_db(ledger, parsed.val, approve)
                             ELSE ledger
                /\ Respond("parent_approve", TRUE, "redirect:parent_dashboard")
                /\ UNCHANGED <<cfg, now, procs, session, kids>>

\* POST /parent/chores/save
parent_save_chore(key0, title0, raw0, requires0) ==
    /\ req = NoRequest
    /\ IF ~Passes("parent_save_chore") THEN Gated("parent_save_chore")
       ELSE LET dropped  == require_parent(session)
                loaded   == ensure_family_ready
                key      == FormField(key0)
                title    == FormField(title0)
                parsed   == ParseInt(Strip(IF raw0 = <<>> THEN <<"0">> ELSE raw0))
                requires == (IF requires0 = <<>> THEN <<"1">> ELSE requires0) = <<"1">>
                cents    == ClampNegative(IF parsed.ok THEN parsed.val ELSE PyInt(0))
                res      == add_or_update_chore_db(loaded.chores, key, title, cents, requires)
            IN  /\ families' = loaded.families
                /\ chores' = res.chores
                /\ Respond("parent_save_chore", TRUE,
                           IF res.err THEN "error" ELSE "redirect:parent_edit_chores")
                /\ UNCHANGED <<cfg, now, procs, session, kids, ledger>>

\* POST /parent/chores/delete
parent_delete_chore(key0) ==
    /\ req = NoRequest
    /\ IF ~Passes("parent_delete_chore") THEN Gated("parent_delete_chore")
       ELSE LET dropped == require_parent(session)
                loaded  == ensure_family_ready
                key     == FormField(key0)
            IN  /\ families' = loaded.families
                /\ chores' = delete_chore_db(loaded.chores, key)
                /\ ledger' = ledger_after_delete(ledger, key)
                /\ Respond("parent_delete_chore", TRUE, "redirect:parent_edit_chores")
                /\ UNCHANGED <<cfg, now, procs, session, kids>>

(* ---------------------------- specification ---------------------------- *)

\* the process after import, a browser without a session cookie
Init ==
    /\ FAMILY_CODE \in CodeConfigs
    /\ PARENT_PIN \in PinConfigs
    /\ DATABASE_OK \in BOOLEAN
    /\ now = 0
    /\ procs = NoProcs
    /\ session = NoSession
    /\ families = {}
    /\ kids = {}
    /\ chores = {}
    /\ ledger = <<>>
    /\ req = NoRequest

Next ==
    \/ db_help
    \/ static
    \/ family_login
    \/ \E code \in CodeInputs : family_login_post(code)
    \/ logout
    \/ parent_login
    \/ \E pin \in PinInputs : parent_login_post(pin)
    \/ home
    \/ kid_menu
    \/ \E k \in KidNameInputs, c \in ChoreKeyInputs : kid_log(k, c)
    \/ \E k \in KidNameInputs : kid_summary(k)
    \/ parent_dashboard
    \/ \E k \in KidNameInputs : parent_kid_details(k)
    \/ parent_edit_chores
    \/ \E k \in AddKidInputs : parent_add_kid(k)
    \/ \E k \in KidNameInputs, raw \in GoalInputs : parent_set_goal(k, raw)
    \/ \E k \in KidNameInputs : parent_pay_kid(k)
    \/ \E id \in LedgerIdInputs, ap \in FlagInputs : parent_approve(id, ap)
    \/ \E f \in SaveForms : parent_save_chore(f[1], f[2], f[3], f[4])
    \/ \E k \in ChoreKeyInputs : parent_delete_chore(k)
    \/ finish

Spec == Init /\ [][Next]_vars

\* The same process met by a browser whose session already carries the family
\* grant, as family_login_post writes it.  A grant is written by a view, which
\* runs only when DATABASE_OK, for a code the comparison accepts.  The PIN is
\* one a parent can enter.
InitGranted ==
    /\ FAMILY_CODE \in {c \in CodeConfigs : c # <<>> /\ Strip(c) = c}
    /\ PARENT_PIN \in {c \in PinConfigs : c # <<>>}
    /\ DATABASE_OK = TRUE
    /\ now = 0
    /\ procs = NoProcs
    /\ session = [family_ok |-> TRUE]
    /\ families = {}
    /\ kids = {}
    /\ chores = {}
    /\ ledger = <<>>
    /\ req = NoRequest

SpecGranted == InitGranted /\ [][Next]_vars

\* time.time() moves on.  A request reads the clock at most once, so the clock
\* is advanced between requests.
tick ==
    /\ req = NoRequest
    /\ now < MaxNow
    /\ now' = now + 1
    /\ UNCHANGED <<cfg, procs, session, data, req>>

NextClock == Next \/ tick

\* Spec and SpecGranted follow the requests made at one reading of the clock;
\* SpecClock follows the same requests while the clock moves on.
SpecClock == InitGranted /\ [][NextClock]_vars

\* A ledger row of the default chore that requires approval, which a row of
\* any status can be of
StreakRow(k, ts, st) ==
    [kid_name |-> k, chore_key |-> S_dishes, chore_title |-> T_dishes,
     reward_cents |-> 100, ts |-> ts, status |-> st]

\* the ledgers of up to MaxStreakRows such rows of two kids, written in the
\* order of the clock and not after t
StreakLedgers(t) ==
    LET Rows == {StreakRow(k, ts, st) :
                    k \in {<<"a">>, <<"b">>}, ts \in 0..t,
                    st \in {"pending", "approved", "denied", "paid"}}
    IN  {l \in UNION {[1..m -> Rows] : m \in 0..MaxStreakRows} :
            \A i \in 1..(Len(l) - 1) : l[i].ts <= l[i + 1].ts}

\* the process some days on: two kids, the default chores, and a ledger the
\* requests of those days have written
InitStreak ==
    /\ FAMILY_CODE = <<"f">>
    /\ PARENT_PIN = <<"p">>
    /\ DATABASE_OK = TRUE
    /\ now \in 0..MaxStreakNow
    /\ procs = NoProcs
    /\ session = [family_ok |-> TRUE]
    /\ families = {sha16(FAMILY_CODE)}
    /\ kids = {[name |-> <<"a">>, goal_cents |-> 0], [name |-> <<"b">>, goal_cents |-> 0]}
    /\ chores = defaults
    /\ ledger \in StreakLedgers(now)
    /\ req = NoRequest

NextStreak ==
    \/ \E k \in KidNameInputs : kid_summary(k)
    \/ finish

\* the summary pages of such a store
SpecStreak == InitStreak /\ [][NextStreak]_vars

\* the chore_key fields of the delete forms of the chores page, one for each
\* default chore
DeleteKeyInputs == {S_make_bed, S_dishes, S_trash, S_homework}

\* The chores page and its forms, with every default chore open to deletion,
\* next to the pages a kid loads.
NextChores ==
    \/ home
    \/ kid_menu
    \/ parent_edit_chores
    \/ \E f \in SaveForms : parent_save_chore(f[1], f[2], f[3], f[4])
    \/ \E k \in DeleteKeyInputs : parent_delete_chore(k)
    \/ finish

SpecChores == InitGranted /\ [][NextChores]_vars

\* two page requests reach a new store at once
InitReady ==
    /\ FAMILY_CODE = <<"f">>
    /\ PARENT_PIN = <<"p">>
    /\ DATABASE_OK = TRUE
    /\ now = 0
    /\ procs \in [{1, 2} -> {Thread(v) : v \in {"home", "kid_menu"}}]
    /\ session = [family_ok |-> TRUE]
    /\ families = {}
    /\ kids = {}
    /\ chores = {}
    /\ ledger = <<>>
    /\ req = NoRequest

NextReady ==
    \/ \E p \in DOMAIN procs : family_select(p)
    \/ \E p \in DOMAIN procs : family_insert(p)
    \/ \E p \in DOMAIN procs : family_commit(p)
    \/ \E p \in DOMAIN procs : seed_count(p)
    \/ \E p \in DOMAIN procs : seed_insert(p)
    \/ \E p \in DOMAIN procs : seed_commit(p)

SpecReady == InitReady /\ [][NextReady]_vars

\* approve, deny and pay requests reach at once a store whose ledger holds a
\* pending entry of a chore that requires approval
InitRace ==
    /\ FAMILY_CODE = <<"f">>
    /\ PARENT_PIN = <<"p">>
    /\ DATABASE_OK = TRUE
    /\ now = 0
    /\ procs \in [{1, 2, 3} -> {Thread(v) : v \in {"approve", "deny", "pay"}}]
    /\ session = [family_ok |-> TRUE, parent_ok |-> TRUE]
    /\ families = {sha16(FAMILY_CODE)}
    /\ kids = {[name |-> <<"a">>, goal_cents |-> 0]}
    /\ chores = defaults
    /\ ledger = <<StreakRow(<<"a">>, 0, "pending")>>
    /\ req = NoRequest

NextRace ==
    \/ \E p \in DOMAIN procs : family_select(p)
    \/ \E p \in DOMAIN procs : seed_count(p)
    \/ \E p \in DOMAIN procs : update_scan(p)
    \/ \E p \in DOMAIN procs : update_write(p)
    \/ \E p \in DOMAIN procs : update_commit(p)

SpecRace == InitRace /\ [][NextRace]_vars

(* ------------------------------- claims -------------------------------- *)

family_ok(s) == SessionGet(s, "family_ok")
parent_ok(s) == SessionGet(s, "parent_ok")

\* a step that takes up the request of this endpoint
Serves(endpoint) == req = NoRequest /\ req'.endpoint = endpoint

ParentActions ==
    {"parent_add_kid", "parent_set_goal", "parent_approve", "parent_pay_kid",
     "parent_save_chore", "parent_delete_chore"}

OpenEndpoints == {"family_login", "db_help", "static"}

\* C1: a request for a parent action by a session that holds the family grant
\* but not the parent grant leaves kids, chores and ledger as the load of the
\* family found them.
C1_ParentPinRequired ==
    [][ (/\ req = NoRequest
         /\ req'.endpoint \in ParentActions
         /\ family_ok(session)
         /\ ~parent_ok(session))
        => (/\ kids' = kids
            /\ chores' = ensure_family_ready.chores
            /\ ledger' = ledger) ]_vars

\* C2: a session without a grant that posts the configured, non-empty family
\* code to the login endpoint holds the family grant when the request ends
\* (stated for a process that has its database and a code without blanks
\* around it).
C2_LoginGrantsFamily ==
    [][ (/\ DATABASE_OK
         /\ FAMILY_CODE # <<>>
         /\ Strip(FAMILY_CODE) = FAMILY_CODE
         /\ session = NoSession
         /\ family_login_post(FAMILY_CODE))
        => family_ok(session') ]_vars

\* C3 as claimed: a session keeps each grant it holds across every request
\* other than logout.
C3_OnlyLogoutRemoves ==
    [][ (req = NoRequest /\ req'.endpoint # "logout")
        => (/\ family_ok(session) => family_ok(session')
            /\ parent_ok(session) => parent_ok(session')) ]_vars

\* C3 as amended: a session keeps the family grant across every request other
\* than logout and a login post that is turned down, and keeps the parent
\* grant across every request other than logout, any login post and a parent
\* login post that is turned down.
C3_GrantsPersist ==
    [][ req = NoRequest
        => (/\ (/\ family_ok(session)
                /\ req'.endpoint # "logout"
                /\ ~(req'.endpoint = "family_login_post" /\ req'.resp = "redirect:family_login"))
               => family_ok(session')
            /\ (/\ parent_ok(session)
                /\ req'.endpoint \notin {"logout", "family_login_post"}
                /\ ~(req'.endpoint = "parent_login_post" /\ req'.resp = "redirect:parent_login"))
               => parent_ok(session')) ]_vars

\* a session holding both grants has posted the right PIN again and kept both
C3_Witness ==
    /\ req.endpoint = "parent_login_post"
    /\ req.resp = "redirect:parent_dashboard"
    /\ family_ok(session)
    /\ parent_ok(session)
    /\ ledger # <<>>

\* C4: when a logout request has been answered the session holds neither the
\* family grant nor the parent grant.
C4_LogoutClearsBoth ==
    req.endpoint = "logout" => (~family_ok(session) /\ ~parent_ok(session))

\* the logout view has run (so the session held the family grant)
C4_Witness == req.endpoint = "logout" /\ req.ran /\ session = NoSession

\* C5: a request by a session without the family grant, to any endpoint but
\* the login page, the database-help page and static files, is answered by a
\* redirect of the before_request hook, its view does not run, and the tables
\* stay as they are.
C5_NoGrantNoAccess ==
    [][ (/\ req = NoRequest
         /\ req' # NoRequest
         /\ ~family_ok(session)
         /\ req'.endpoint \notin OpenEndpoints)
        => (/\ ~req'.ran
            /\ req'.resp \in {"redirect:family_login", "redirect:db_help"}
            /\ data' = data) ]_vars

\* a logged-out session has asked to log a chore against a filled ledger
C5_Witness ==
    /\ req.endpoint = "kid_log"
    /\ ~req.ran
    /\ ~family_ok(session)
    /\ ledger # <<>>
    /\ kids # {}

StatusMoves ==
    { <<"pending", "approved">>, <<"pending", "denied">>, <<"approved", "paid">> }

\* C6: in every step each ledger entry stays, and its status stays as it is or
\* moves along pending -> approved, pending -> denied or approved -> paid.
C6_StatusOneWay ==
    [][ /\ Len(ledger') >= Len(ledger)
        /\ \A i \in 1..Len(ledger) :
              \/ ledger'[i].status = ledger[i].status
              \/ <<ledger[i].status, ledger'[i].status>> \in StatusMoves ]_vars

\* one entry has been denied and another paid
C6_Witness ==
    \E i, j \in 1..Len(ledger) : ledger[i].status = "denied" /\ ledger[j].status = "paid"

KnownKid(name) == \E k \in kids : k.name = name
KnownChore(ch, key) == \E c \in ch : c.chore_key = key

\* C7: a kid_log request whose kid name is not a kid, or whose chore key is
\* not a chore of the loaded family, leaves the ledger as it is.
C7_UnknownIsNoOp ==
    [][ Serves("kid_log") =>
        \A k \in KidNameInputs, c \in ChoreKeyInputs :
           (/\ kid_log(k, c)
            /\ (~KnownKid(Strip(k)) \/ ~KnownChore(ensure_family_ready.chores, Strip(c))))
           => ledger' = ledger ]_vars

\* C8: an entry is appended one at a time, for a chore of the loaded family,
\* with status pending when that chore requires approval and approved when it
\* does not.
C8_InitialStatus ==
    [][ Len(ledger') > Len(ledger)
        => (/\ Len(ledger') = Len(ledger) + 1
            /\ LET e == ledger'[Len(ledger')] IN
               \E c \in ensure_family_ready.chores :
                  /\ c.chore_key = e.chore_key
                  /\ e.status = (IF c.requires_approval THEN "pending" ELSE "approved")) ]_vars

\* a kid_log request has been answered; the ledger holds an entry of the
\* default auto-approved chore and its last entry is pending
C8_Witness ==
    /\ req.endpoint = "kid_log"
    /\ req.ran
    /\ Len(ledger) = 2
    /\ ledger[1].chore_title = T_make_bed
    /\ ledger[1].status = "approved"
    /\ ledger[2].status = "pending"

\* C9: a parent_approve request served to a family session leaves kids as they
\* are and chores as loaded, keeps the ledger's length, and changes no entry
\* except the pending one whose id it names, which becomes approved or denied.
C9_ApproveFrame ==
    [][ (Serves("parent_approve") /\ family_ok(session)) =>
        /\ kids' = kids
        /\ chores' = ensure_family_ready.chores
        /\ Len(ledger') = Len(ledger)
        /\ \A id \in LedgerIdInputs, ap \in FlagInputs :
              LET p      == ParseInt(id)
                  named  == IF p.ok /\ ~p.val.over THEN p.val.val ELSE 0
                  answer == IF ap = <<"1">> THEN "approved" ELSE "denied"
              IN  \/ \A i \in 1..Len(ledger) :
                        IF i = named /\ ledger[i].status = "pending"
                        THEN ledger'[i] = [ledger[i] EXCEPT !.status = answer]
                        ELSE ledger'[i] = ledger[i]
                  \/ ~parent_approve(id, ap) ]_vars

\* an approve request has been answered with one entry denied next to a
\* pending one
C9_Witness ==
    /\ req.endpoint = "parent_approve"
    /\ req.ran
    /\ \E i, j \in 1..Len(ledger) :
          ledger[i].status = "denied" /\ ledger[j].status = "pending"

\* C10: when a parent_pay_kid request for kid k has been served to a family
\* session, no entry of k is approved and owed_by_kid gives 0 for k.
C10_PaidOwesNothing ==
    [][ Serves("parent_pay_kid") =>
        \A k \in KidNameInputs :
           (family_ok(session) /\ parent_pay_kid(k))
           => (/\ \A i \in 1..Len(ledger') :
                     ledger'[i].kid_name = Strip(k) => ledger'[i].status # "approved"
               /\ owed_by_kid(ledger', Strip(k)) = 0) ]_vars

\* a pay request has been answered and two entries of one kid are paid
C10_Witness ==
    /\ req.endpoint = "parent_pay_kid"
    /\ req.ran
    /\ Len(ledger) = 2
    /\ ledger[1].kid_name = ledger[2].kid_name
    /\ ledger[1].status = "paid"
    /\ ledger[2].status = "paid"
    /\ ledger[1].reward_cents > 0

\* C11: a parent_pay_kid request for kid k served to a family session raises
\* paid_total_by_kid of k by what owed_by_kid gave for k before, keeps every
\* entry, and leaves k's pending and denied entries and every entry of every
\* other kid as they were.
C11_PayMovesOwed ==
    [][ (Serves("parent_pay_kid") /\ family_ok(session)) =>
        \A k \in KidNameInputs :
           parent_pay_kid(k)
           => LET n == Strip(k) IN
              /\ paid_total_by_kid(ledger', n) = paid_total_by_kid(ledger, n) + owed_by_kid(ledger, n)
              /\ Len(ledger') = Len(ledger)
              /\ \A i \in 1..Len(ledger) :
                    (ledger[i].kid_name # n \/ ledger[i].status \in {"pending", "denied"})
                    => ledger'[i] = ledger[i] ]_vars

\* a pay request has been answered: one kid's entry of 50 cents is paid and
\* another kid's entry is still approved
C11_Witness ==
    /\ req.endpoint = "parent_pay_kid"
    /\ req.ran
    /\ Len(ledger) = 2
    /\ ledger[1].status = "paid"
    /\ ledger[1].reward_cents = 50
    /\ ledger[2].status = "approved"
    /\ ledger[2].kid_name # ledger[1].kid_name

\* C12: the state a parent_pay_kid request for kid k leaves is one that loading
\* the family and paying k once more would not change: no entry moves, and
\* kids and chores stay.
C12_PayIdempotent ==
    [][ (Serves("parent_pay_kid") /\ family_ok(session)) =>
        \A k \in KidNameInputs :
           parent_pay_kid(k)
           => /\ mark_paid_db(ledger', Strip(k)) = ledger'
              /\ seed_default_chores(chores') = chores'
              /\ get_or_create_family_id(families', FAMILY_CODE) = families'
              /\ kids' = kids ]_vars

\* a pay request has been answered after an earlier one: entries of two kids
\* are paid
C12_Witness ==
    /\ req.endpoint = "parent_pay_kid"
    /\ req.ran
    /\ \E i, j \in 1..Len(ledger) :
          /\ ledger[i].kid_name # ledger[j].kid_name
          /\ ledger[i].status = "paid"
          /\ ledger[j].status = "paid"

\* C13: the call mark_paid_db makes for kid k returns the sum of reward_cents
\* of the entries of k it moves from approved to paid (0 when there is none).
C13_ReturnsTotal ==
    [][ (Serves("parent_pay_kid") /\ family_ok(session)) =>
        \A k \in KidNameInputs :
           parent_pay_kid(k)
           => mark_paid_db_result(ledger, Strip(k)) = Returned(owed_by_kid(ledger, Strip(k))) ]_vars

\* what of an entry is written once: everything but its status
Snapshot(e) ==
    <<e.kid_name, e.chore_key, e.chore_title, e.reward_cents, e.ts>>

\* C14: in every step, whatever the request and whatever the clock, each
\* ledger entry stays in its place with its kid name, chore key, chore title,
\* reward_cents and timestamp; only its status may differ.
C14_EntriesImmutable ==
    [][ /\ Len(ledger') >= Len(ledger)
        /\ \A i \in 1..Len(ledger) : Snapshot(ledger'[i]) = Snapshot(ledger[i]) ]_vars

\* the chore has been re-saved with another title and reward and then deleted:
\* the ledger still holds an entry of 50 cents under the first title, written
\* at the first reading of the clock, and a later entry under the second title
C14_Witness ==
    /\ req.endpoint = "parent_delete_chore"
    /\ req.ran
    /\ ~ \E c \in chores : c.chore_key = S_make_bed
    /\ Len(ledger) = 2
    /\ ledger[1].chore_key = S_make_bed
    /\ ledger[1].chore_title = T_make_bed
    /\ ledger[1].reward_cents = 50
    /\ ledger[1].ts = 0
    /\ ledger[2].chore_key = S_make_bed
    /\ ledger[2].chore_title = <<"T">>
    /\ ledger[2].reward_cents = 0
    /\ ledger[2].ts = 1

\* C15: no request ends in an exception: whatever the form fields, the answer
\* to a request is a page, a file or a redirect.
C15_NoException == req.resp # "error"

\* C16: after every step kid names are unique (there is no kid at the start),
\* and a parent_add_kid request served to a family session leaves the kids as
\* they are when the name is blank after trimming or is the name of a kid
\* (whose goal_cents stays), and otherwise adds exactly one kid, with that
\* name and goal_cents 0.
C16_AddKid ==
    [][ /\ \A a, b \in kids' : a.name = b.name => a = b
        /\ (Serves("parent_add_kid") /\ family_ok(session)) =>
           \A k \in AddKidInputs :
              parent_add_kid(k)
              => LET n == Strip(k) IN
                 IF n = <<>> \/ KnownKid(n)
                 THEN kids' = kids
                 ELSE /\ kids' = kids \cup {[name |-> n, goal_cents |-> 0]}
                      /\ Cardinality(kids') = Cardinality(kids) + 1 ]_vars

\* an add-kid request has been answered and the kid, who was there before,
\* still has the goal set earlier
C16_Witness ==
    /\ req.endpoint = "parent_add_kid"
    /\ req.ran
    /\ kids = {[name |-> <<"a">>, goal_cents |-> 25]}

\* amounts of the goal form that are not a number, or are below zero
BadAmounts == { <<"x">>, <<"-", "5">> }

\* C17: after every step every kid has goal_cents >= 0 (there is no kid at
\* the start), and a parent_set_goal request served to
\* a family session leaves the kids as they are when it names no kid, and
\* stores goal_cents 0 for the kid it names when the amount is negative or
\* not a number, adding and removing no kid.
C17_SetGoal ==
    [][ /\ \A r \in kids' : r.goal_cents >= 0
        /\ (Serves("parent_set_goal") /\ family_ok(session)) =>
           \A k \in KidNameInputs, raw \in GoalInputs :
              parent_set_goal(k, raw)
              => LET n == Strip(k) IN
                 /\ ~KnownKid(n) => kids' = kids
                 /\ (KnownKid(n) /\ raw \in BadAmounts)
                    => /\ [name |-> n, goal_cents |-> 0] \in kids'
                       /\ {r.name : r \in kids'} = {r.name : r \in kids}
                       /\ Cardinality(kids') = Cardinality(kids) ]_vars

\* a set-goal request has been answered with a redirect and the kid's goal
\* is 0
C17_Witness ==
    /\ req.endpoint = "parent_set_goal"
    /\ req.ran
    /\ req.resp = "redirect:parent_dashboard"
    /\ kids = {[name |-> <<"a">>, goal_cents |-> 0]}
    /\ ledger # <<>>

\* C18: after every step every chore and every ledger entry has
\* reward_cents >= 0 (there is none at the start), and a
\* parent_save_chore request served to a family session with a key, a title
\* and a negative reward stores the chore under that key with that title and
\* reward_cents 0.
C18_RewardClamped ==
    [][ /\ \A c \in chores' : c.reward_cents >= 0
        /\ \A i \in 1..Len(ledger') : ledger'[i].reward_cents >= 0
        /\ (Serves("parent_save_chore") /\ family_ok(session)) =>
           \A f \in SaveForms :
              (/\ Strip(f[1]) # <<>>
               /\ Strip(f[2]) # <<>>
               /\ f[3] = <<"-", "5">>
               /\ parent_save_chore(f[1], f[2], f[3], f[4]))
              => \E c \in chores' :
                    /\ c.chore_key = Strip(f[1])
                    /\ c.title = Strip(f[2])
                    /\ c.reward_cents = 0 ]_vars

\* a save request has been answered, the chore is stored with reward 0, and
\* the ledger holds an entry of it next to one of 50 cents
C18_Witness ==
    /\ req.endpoint = "parent_save_chore"
    /\ req.ran
    /\ \E c \in chores : c.chore_key = S_make_bed /\ c.title = <<"T">> /\ c.reward_cents = 0
    /\ Len(ledger) = 2
    /\ ledger[1].reward_cents = 50
    /\ ledger[2].reward_cents = 0

\* C19: after every step chore keys are unique (there is no chore at the
\* start), and a parent_save_chore request served to a family session leaves
\* the chores as loaded when the title is blank, and, when it carries a
\* title, the key of a chore and a reward that fits, keeps the number of
\* chores and every other chore and stores the title, the reward and the
\* approval flag it carries under that key.
C19_ChoreKeysUnique ==
    [][ /\ \A a, b \in chores' : a.chore_key = b.chore_key => a = b
        /\ (Serves("parent_save_chore") /\ family_ok(session)) =>
           \A f \in SaveForms :
              (/\ (Strip(f[2]) = <<>> \/ f[3] \in BadAmounts)
               /\ parent_save_chore(f[1], f[2], f[3], f[4]))
              => LET loaded == ensure_family_ready.chores
                     key    == Strip(f[1])
                     title  == Strip(f[2])
                 IN  /\ title = <<>> => chores' = loaded
                     /\ (title # <<>> /\ KnownChore(loaded, key) /\ f[3] \in BadAmounts)
                        => /\ Cardinality(chores') = Cardinality(loaded)
                           /\ \A c \in loaded : c.chore_key # key => c \in chores'
                           /\ ChoreRow(key, title, 0, f[4] \in {<<>>, <<"1">>}) \in chores' ]_vars

\* a save request has been answered: the chore has its new title and the
\* three other default chores are there
C19_Witness ==
    /\ req.endpoint = "parent_save_chore"
    /\ req.ran
    /\ Cardinality(chores) = 4
    /\ ChoreRow(S_make_bed, <<"T">>, 0, FALSE) \in chores
    /\ ChoreRow(S_dishes, T_dishes, 100, TRUE) \in chores

\* The derivation of a chore id from a title, as the specification words it:
\* lower-case, every run of other characters one underscore, no underscore at
\* either end.
LowerCase(c) ==
    CASE c = "T" -> "t" [] c = "M" -> "m" [] c = "U" -> "u" [] c = "H" -> "h"
      [] OTHER -> c

SlugChars ==
    DigitChars \cup {"a", "b", "c", "d", "e", "f", "g", "h", "i", "j", "k", "l", "m",
                     "n", "o", "p", "q", "r", "s", "t", "u", "v", "w", "x", "y", "z"}

RECURSIVE Underscored(_)
Underscored(s) ==
    IF s = <<>> THEN <<>>
    ELSE LET rest == Underscored(Tail(s))
             c    == LowerCase(Head(s))
         IN  IF c \in SlugChars THEN <<c>> \o rest
             ELSE IF rest # <<>> /\ Head(rest) = "_" THEN rest
             ELSE <<"_">> \o rest

RECURSIVE TrimUnderscores(_)
TrimUnderscores(s) ==
    IF s # <<>> /\ Head(s) = "_" THEN TrimUnderscores(Tail(s))
    ELSE IF s # <<>> /\ s[Len(s)] = "_" THEN TrimUnderscores(SubSeq(s, 1, Len(s) - 1))
    ELSE s

Slug(title) == TrimUnderscores(Underscored(title))

\* C20: the chore a parent_save_chore request stores has the key derived from
\* its title (stated for titles with a letter or digit and rewards that fit).
C20_KeyFromTitle ==
    [][ (Serves("parent_save_chore") /\ family_ok(session)) =>
        \A f \in SaveForms :
           (/\ Strip(f[1]) # <<>>
            /\ Slug(f[2]) # <<>>
            /\ f[3] \in BadAmounts
            /\ parent_save_chore(f[1], f[2], f[3], f[4]))
           => \E c \in chores' : c.title = Strip(f[2]) /\ c.chore_key = Slug(f[2]) ]_vars

\* kid k has an entry of day d that is pending, approved or paid
Counted(led, k, d) ==
    \E i \in 1..Len(led) :
       /\ led[i].kid_name = k
       /\ led[i].status \in {"pending", "approved", "paid"}
       /\ DayOf(led[i].ts) = d

\* the length of the longest run of counted days that ends today
LongestRun(led, k, today) ==
    LET Runs == {n \in 0..(today + 1) : \A j \in 0..(n - 1) : Counted(led, k, today - j)}
    IN  CHOOSE n \in Runs : \A m \in Runs : m <= n

\* C21: the streak a kid's summary page shows is the length of the longest run
\* of consecutive days ending today on each of which the kid has an entry
\* that is pending, approved or paid.
C21_StreakIsRun ==
    [][ (Serves("kid_summary") /\ req'.resp = "page") =>
        \A k \in KidNameInputs :
           kid_summary(k) => req'.streak = LongestRun(ledger, Strip(k), DayOf(now)) ]_vars

\* a summary page shows a streak of one day for a kid with an entry of today
\* and an entry two days back
C21_Witness ==
    /\ req.endpoint = "kid_summary"
    /\ req.resp = "page"
    /\ req.streak = 1
    /\ DayOf(now) = 2
    /\ \E k \in {<<"a">>, <<"b">>} :
          ledger = <<StreakRow(k, 0, "paid"), StreakRow(k, 4, "pending")>>

\* the views that call ensure_family_ready()
LoadingEndpoints ==
    {"home", "kid_menu", "kid_log", "kid_summary", "parent_dashboard",
     "parent_kid_details", "parent_edit_chores"} \cup ParentActions

ChoreForms == {"parent_save_chore", "parent_delete_chore"}

\* C22: a request that loads the family of a store without chores leaves the
\* store with "Make bed" (50 cents, no approval) and "Unload dishwasher" (100
\* cents, approval) among its chores, also when the request fails after the
\* load; a request on a store with a chore, other than the two chore forms,
\* leaves the chores as they are.
C22_SeedOnFirstLoad ==
    [][ (req = NoRequest /\ req'.ran) =>
        /\ (/\ chores = {}
            /\ req'.endpoint \in LoadingEndpoints
            /\ (req'.endpoint \in ChoreForms => req'.resp = "error"))
           => /\ ChoreRow(S_make_bed, T_make_bed, 50, FALSE) \in chores'
              /\ ChoreRow(S_dishes, T_dishes, 100, TRUE) \in chores'
        /\ (chores # {} /\ req'.endpoint \notin ChoreForms) => chores' = chores ]_vars

\* a page has been loaded over a store from which one default chore had been
\* deleted: the three others are there and the deleted one is not
C22_Witness ==
    /\ req.endpoint = "home"
    /\ req.ran
    /\ Cardinality(chores) = 3
    /\ ~ \E c \in chores : c.chore_key = S_make_bed

\* The family row is written by the load that seeds the defaults, so a store
\* with the family row and no chore is one whose chores have all been deleted.
AllChoresDeleted == families # {} /\ chores = {}

\* C23: after every chore has been deleted, a request other than a save-chore
\* request leaves the store without chores.
C23_DeletedStaysDeleted ==
    [][ (req = NoRequest /\ AllChoresDeleted /\ req'.endpoint # "parent_save_chore")
        => chores' = {} ]_vars

\* C24: a session that holds the parent grant holds the family grant.
C24_ParentImpliesFamily == parent_ok(session) => family_ok(session)

\* a session holding both grants has loaded the parent dashboard
C24_Witness ==
    /\ req.endpoint = "parent_dashboard"
    /\ req.ran
    /\ parent_ok(session)
    /\ family_ok(session)

Finished(p) == procs[p].pc \in {"done", "failed"}

\* C25: when the two requests that met the new store have both ended, neither
\* has failed, and the store holds one family row and the four default
\* chores, each once.
C25_ReadyTogether ==
    (\A p \in DOMAIN procs : Finished(p))
    => /\ \A p \in DOMAIN procs : procs[p].pc = "done"
       /\ Cardinality(families) = 1
       /\ chores = defaults
       /\ Cardinality({c.chore_key : c \in chores}) = Cardinality(chores)

\* C26: in every step of the requests on the entry its status stays or moves
\* along pending -> approved, pending -> denied or approved -> paid (so a
\* decision is not replaced by the other one, and a denied entry is not
\* paid), and when the requests have all ended and one of them was an
\* approve or a deny, the entry is no longer pending.
C26_OneDecision ==
    [][ /\ Len(ledger') = Len(ledger)
        /\ \A id \in 1..Len(ledger) :
              \/ ledger'[id].status = ledger[id].status
              \/ <<ledger[id].status, ledger'[id].status>> \in StatusMoves
        /\ (/\ \A p \in DOMAIN procs : procs'[p].pc = "done"
            /\ \E p \in DOMAIN procs : procs[p].view \in {"approve", "deny"})
           => ledger'[RaceId].status # "pending" ]_vars

\* an approve, a deny and a pay request have all ended and the entry is paid
C26_Witness ==
    /\ DOMAIN procs = {1, 2, 3}
    /\ \A p \in DOMAIN procs : procs[p].pc = "done"
    /\ {procs[p].view : p \in DOMAIN procs} = {"approve", "deny", "pay"}
    /\ ledger[RaceId].status = "paid"

====
